---- MODULE Spec2Model ----
(***************************************************************************)
(* Admissions-flow engine: users, steps, tasks, the progression algorithm  *)
(* (flow.py), the structural mutations of a user's step list (models.py)   *)
(* and the request handlers that drive them (controllers.py).              *)
(*                                                                         *)
(* Python values are modelled as tagged pairs <<type, value>>; Python      *)
(* list indices are kept 0-based as in the source, so steps[i] of the      *)
(* source is steps[i + 1] here.                                            *)
(***************************************************************************)
EXTENDS Integers, Sequences, FiniteSets, TLC

(***************************************************************************)
(* Bounds of the model.                                                    *)
(***************************************************************************)
\* successful add_step / remove_step / modify_step calls per behaviour
MaxMutations == 1
\* successful complete_task calls counted in a user's history
MaxCompletions == 9

(***************************************************************************)
(* Python values.                                                          *)
(***************************************************************************)
PyStr(s) == <<"str", s>>
PyInt(n) == <<"int", n>>
\* the value None (a key that dict.get does not find, a JSON null)
PyNone == <<"none", 0>>
\* a key that is not in a payload dictionary
Absent == <<"absent", 0>>
\* None where the source holds a name (step_name / task_name missing in JSON)
None == "<None>"
\* None where the source holds an index (no "index" key in the request)
NoIndex == -99
\* a Task.condition that came from JSON: a string, which is not callable
JsonCondition == "json condition"

\* models.py: class Status
COMPLETED == "completed"
NOT_COMPLETED == "not completed"
IN_PROGRESS == "in progress"
ACCEPTED == "accepted"
REJECTED == "rejected"

Status == {COMPLETED, NOT_COMPLETED, IN_PROGRESS, ACCEPTED, REJECTED}

(***************************************************************************)
(* utils.py: conditions and field validation.                              *)
(***************************************************************************)
\* outcome of calling a condition: "true", "false", or "raise" (TypeError)
IqThreshold == 75

check_iq_score_condition(score) ==
    IF score[1] = "int"
    THEN (IF score[2] > IqThreshold THEN "true" ELSE "false")
    ELSE "raise"            \* None > 75 and "90" > 75 raise TypeError

check_interview_condition(status) ==
    IF status = PyStr("passed_interview") THEN "true" ELSE "false"

\* cond(condition_var) for the value stored in Task.condition
CallCondition(cond, value) ==
    CASE cond = "check_iq_score_condition" -> check_iq_score_condition(value)
      [] cond = "check_interview_condition" -> check_interview_condition(value)
      [] OTHER -> "raise"   \* a JSON value is not callable

\* the strings of the model on which the library predicates are tabulated
EmailStrings == {"a@b.com", "A@b.com", "c@d.com", "test3@example.com"}
AlphaStrings == {"Bob", "Adams", "abc"}
DigitStrings == {"123", "90", "123456789"}
DateStrings == {"2024-08-01"}
TimestampStrings == {"2024-01-01 12:00:00"}
\* int(value) for a string: the integer it denotes, or ValueError
IntStrings == {"90", "123"}
IntOfString(s) == IF s = "90" THEN 90 ELSE 123

\* "date" in field_name / "name" in field_name, on the model's field names
ContainsDate(field_name) == field_name \in {"interview_date"}
ContainsName(field_name) == field_name \in {"first_name", "last_name"}

NoError == "<no error>"
\* the call raises TypeError / AttributeError, which the code does not catch
Raise == "<raise TypeError>"
RaiseAttributeError == "<raise AttributeError>"
Raises == {Raise, RaiseAttributeError}

\* utils.validate_field: the error message, NoError for None, Raise or
\* RaiseAttributeError when the value is of a type the library call or the
\* string method does not take
validate_field(field_name, value) ==
    CASE field_name = "email" ->
           IF value[1] # "str" THEN Raise
           ELSE IF value[2] \in EmailStrings THEN NoError
           ELSE "Invalid email format."
      [] field_name # "email" /\ ContainsDate(field_name) ->
           IF value[1] # "str" THEN Raise
           ELSE IF value[2] \in DateStrings THEN NoError
           ELSE "Date must be in YYYY-MM-DD format."
      [] field_name = "timestamp" ->
           IF value[1] # "str" THEN Raise
           ELSE IF value[2] \in TimestampStrings THEN NoError
           ELSE "Timestamp must be in YYYY-MM-DD HH:MM:SS format."
      [] field_name = "passport_number" ->
           IF value[1] # "str" THEN RaiseAttributeError
           ELSE IF value[2] \in DigitStrings \/ value[2] \in AlphaStrings
                THEN NoError
           ELSE "Passport number must contain only digits."
      [] field_name \notin {"email", "timestamp", "passport_number"}
         /\ ~ContainsDate(field_name) /\ ContainsName(field_name) ->
           IF value[1] # "str" THEN RaiseAttributeError
           ELSE IF value[2] \in AlphaStrings THEN NoError
           ELSE "Name fields must contain only alphabetic characters."
      [] field_name = "score" ->
           IF value[1] = "int"
           THEN (IF 0 <= value[2] /\ value[2] <= 100 THEN NoError
                 ELSE "Score must be between 0 and 100.")
           ELSE IF value[1] = "str"
           THEN (IF value[2] \in IntStrings
                 THEN (IF 0 <= IntOfString(value[2])
                          /\ IntOfString(value[2]) <= 100
                       THEN NoError
                       ELSE "Score must be between 0 and 100.")
                 ELSE "Score must be a valid integer between 0 and 100.")
           ELSE Raise       \* int(None) raises TypeError
      [] OTHER ->
           IF value = PyStr("") THEN "Missing value for field" ELSE NoError

(***************************************************************************)
(* models.py: Task, Step, User.                                            *)
(***************************************************************************)
Task(task_name, condition, required_fields) ==
    [task_name |-> task_name, status |-> NOT_COMPLETED,
     condition |-> condition, required_fields |-> required_fields]

\* Task.check_completion: the task after the call (condition does not raise)
check_completion(task, condition_var) ==
    IF CallCondition(task.condition, condition_var) = "true"
    THEN [task EXCEPT !.status = COMPLETED]
    ELSE [task EXCEPT !.status = REJECTED]

\* a plausible slip: the names are taken from the tasks given, not the tasks kept
Step_NamesOfGivenTasks(step_name, tasks) ==
    LET ts == IF tasks # <<>> THEN tasks
              ELSE <<Task(step_name, None, <<>>)>>
    IN [step_name |-> step_name, tasks |-> ts, status |-> NOT_COMPLETED,
        current_task_index |-> 0,
        tasks_names |-> {tasks[i].task_name : i \in DOMAIN tasks}]

Step(step_name, tasks) ==
    LET ts == IF tasks # <<>> THEN tasks
              ELSE <<Task(step_name, None, <<>>)>>
    IN [step_name |-> step_name, tasks |-> ts, status |-> NOT_COMPLETED,
        current_task_index |-> 0,
        tasks_names |-> {ts[i].task_name : i \in DOMAIN ts}]

User(email) ==
    [email |-> email, steps |-> <<>>, status |-> IN_PROGRESS,
     current_step_index |-> 0, steps_names |-> {}]

InsertAt(seq, i, e) == SubSeq(seq, 1, i) \o <<e>> \o SubSeq(seq, i + 1, Len(seq))
RemoveAt(seq, i) == SubSeq(seq, 1, i) \o SubSeq(seq, i + 2, Len(seq))

\* position (0-based) of the first step called step_name, -1 when there is none
FirstIndexOf(steps, step_name) ==
    IF \E i \in DOMAIN steps : steps[i].step_name = step_name
    THEN (CHOOSE i \in DOMAIN steps :
            /\ steps[i].step_name = step_name
            /\ \A j \in DOMAIN steps : steps[j].step_name = step_name => i <= j) - 1
    ELSE -1

\* a plausible slip: the index len(steps) is taken to be out of range
User_add_step_EndExcluded(user, step, index) ==
    IF index = NoIndex
    THEN [user |-> [user EXCEPT !.steps = Append(@, step),
                                !.steps_names = @ \cup {step.step_name}],
          raised |-> ""]
    ELSE IF 0 <= index /\ index < Len(user.steps)
    THEN [user |-> [user EXCEPT !.steps = InsertAt(@, index, step),
                                !.steps_names = @ \cup {step.step_name}],
          raised |-> ""]
    ELSE [user |-> user, raised |-> "IndexError"]

\* a plausible slip: the name is registered before the index is checked
User_add_step_NameAddedFirst(user, step, index) ==
    IF index = NoIndex
    THEN [user |-> [user EXCEPT !.steps = Append(@, step),
                                !.steps_names = @ \cup {step.step_name}],
          raised |-> ""]
    ELSE IF 0 <= index /\ index <= Len(user.steps)
    THEN [user |-> [user EXCEPT !.steps = InsertAt(@, index, step),
                                !.steps_names = @ \cup {step.step_name}],
          raised |-> ""]
    ELSE [user |-> [user EXCEPT !.steps_names = @ \cup {step.step_name}],
          raised |-> "IndexError"]

\* The three methods return [user, raised]: raised is "" when the method
\* returns, else the name of the exception; the user is then unchanged.
User_add_step(user, step, index) ==
    IF index = NoIndex
    THEN [user |-> [user EXCEPT !.steps = Append(@, step),
                                !.steps_names = @ \cup {step.step_name}],
          raised |-> ""]
    ELSE IF 0 <= index /\ index <= Len(user.steps)
    THEN [user |-> [user EXCEPT !.steps = InsertAt(@, index, step),
                                !.steps_names = @ \cup {step.step_name}],
          raised |-> ""]
    ELSE [user |-> user, raised |-> "IndexError"]

User_remove_step(user, step_name, index) ==
    IF index # NoIndex
    THEN IF 0 <= index /\ index < Len(user.steps)
         THEN IF user.steps[index + 1].step_name \in user.steps_names
              THEN [user |-> [user EXCEPT
                        !.steps_names = @ \ {user.steps[index + 1].step_name},
                        !.steps = RemoveAt(@, index)],
                    raised |-> ""]
              ELSE [user |-> user, raised |-> "KeyError"]
         ELSE [user |-> user, raised |-> "ValueError: Index out of range"]
    ELSE IF step_name # None /\ step_name # ""
    THEN LET i == FirstIndexOf(user.steps, step_name)
         IN IF i >= 0
            THEN IF step_name \in user.steps_names
                 THEN [user |-> [user EXCEPT
                           !.steps_names = @ \ {step_name},
                           !.steps = RemoveAt(@, i)],
                       raised |-> ""]
                 ELSE [user |-> user, raised |-> "KeyError"]
            ELSE [user |-> user, raised |-> "ValueError: not found"]
    ELSE [user |-> user, raised |-> "ValueError: name or index"]

User_modify_step(user, new_step, step_name, index) ==
    IF index # NoIndex /\ 0 <= index /\ index < Len(user.steps)
    THEN IF user.steps[index + 1].step_name \in user.steps_names
         THEN [user |-> [user EXCEPT
                   !.steps_names = (@ \ {user.steps[index + 1].step_name})
                                       \cup {new_step.step_name},
                   !.steps[index + 1] = new_step],
               raised |-> ""]
         ELSE [user |-> user, raised |-> "KeyError"]
    ELSE IF step_name # None /\ step_name # ""
    THEN LET i == FirstIndexOf(user.steps, step_name)
         IN IF i >= 0
            THEN IF step_name \in user.steps_names
                 THEN [user |-> [user EXCEPT
                           !.steps[i + 1] = new_step,
                           !.steps_names = (@ \ {step_name})
                                               \cup {new_step.step_name}],
                       raised |-> ""]
                 \* steps[i] = new_step is executed before the KeyError
                 ELSE [user |-> [user EXCEPT !.steps[i + 1] = new_step],
                       raised |-> "KeyError"]
            ELSE [user |-> user, raised |-> "ValueError: not found"]
    ELSE [user |-> user, raised |-> "ValueError: name or index"]

(***************************************************************************)
(* utils.py: task lists built from request data.  A task of a request is   *)
(* [task_name, required_fields, condition]; task_name is None when the key *)
(* is missing and condition is None or JsonCondition.                      *)
(***************************************************************************)
check_duplicate_task_names(tasks) ==
    IF \E i, j \in DOMAIN tasks : i # j /\ tasks[i].task_name = tasks[j].task_name
    THEN "Duplicate task names are not allowed."
    ELSE NoError

check_empty_task_names(tasks) ==
    IF \E i \in DOMAIN tasks : tasks[i].task_name = ""
    THEN "Task name cannot be empty."
    ELSE NoError

\* create_task_list: [tasks, error]; error is NoError when every task is built
create_task_list(tasks_data) ==
    IF \E i \in DOMAIN tasks_data : tasks_data[i].task_name \in {None, ""}
    THEN [tasks |-> <<>>, error |-> "Each task must have a 'task_name'"]
    ELSE [tasks |-> [i \in DOMAIN tasks_data |->
                        Task(tasks_data[i].task_name, tasks_data[i].condition,
                             tasks_data[i].required_fields)],
          error |-> NoError]

(***************************************************************************)
(* flow.py                                                                 *)
(***************************************************************************)
\* a plausible slip: the Interview step is left with its second task only
default_steps_InterviewNotScheduled ==
    << Step("Personal Details Form",
            <<Task("Personal Details Form", None,
                   <<"first_name", "last_name", "email", "timestamp">>)>>),
       Step("IQ Test",
            <<Task("IQ Test", "check_iq_score_condition",
                   <<"test_id", "score", "timestamp", "condition_var">>)>>),
       Step("Interview",
            <<Task("perform interview", "check_interview_condition",
                   <<"interview_date", "interviewer_id", "decision",
                     "condition_var">>)>>),
       Step("Sign Contract",
            <<Task("upload identification document", None,
                   <<"passport_number", "timestamp">>),
              Task("sign contract", None, <<"timestamp">>)>>),
       Step("Payment", <<Task("Payment", None, <<"payment_id", "timestamp">>)>>),
       Step("Join Slack", <<Task("Join Slack", None, <<"email", "timestamp">>)>>) >>

\* create_admissions_flow, the default steps
default_steps ==
    << Step("Personal Details Form",
            <<Task("Personal Details Form", None,
                   <<"first_name", "last_name", "email", "timestamp">>)>>),
       Step("IQ Test",
            <<Task("IQ Test", "check_iq_score_condition",
                   <<"test_id", "score", "timestamp", "condition_var">>)>>),
       Step("Interview",
            <<Task("schedule interview", None, <<"interview_date">>),
              Task("perform interview", "check_interview_condition",
                   <<"interview_date", "interviewer_id", "decision",
                     "condition_var">>)>>),
       Step("Sign Contract",
            <<Task("upload identification document", None,
                   <<"passport_number", "timestamp">>),
              Task("sign contract", None, <<"timestamp">>)>>),
       Step("Payment", <<Task("Payment", None, <<"payment_id", "timestamp">>)>>),
       Step("Join Slack", <<Task("Join Slack", None, <<"email", "timestamp">>)>>) >>

\* create_admissions_flow: [steps, raised]; custom_steps_data is a sequence
\* of [step_name, tasks], the empty sequence standing for "no custom steps"
create_admissions_flow(custom_steps_data) ==
    IF custom_steps_data # <<>>
    THEN IF \E i \in DOMAIN custom_steps_data :
                create_task_list(custom_steps_data[i].tasks).error # NoError
         THEN [steps |-> <<>>, raised |-> "ValueError"]
         ELSE [steps |-> [i \in DOMAIN custom_steps_data |->
                            Step(custom_steps_data[i].step_name,
                                 create_task_list(custom_steps_data[i].tasks).tasks)],
               raised |-> ""]
    ELSE [steps |-> default_steps, raised |-> ""]

\* user.steps[user.current_step_index] can be resolved
HasCurrentStep(user) == user.current_step_index < Len(user.steps)

CurStep(user) == user.steps[user.current_step_index + 1]
CurTask(user) == CurStep(user).tasks[CurStep(user).current_task_index + 1]

\* get_current_step_and_task: the 0-based positions <<step, task>>
get_current_step_and_task(user) ==
    <<user.current_step_index, CurStep(user).current_task_index>>

check_user_status(user) == user.status

\* a plausible slip: the rejection marks every task of the step
rejected_EveryTask(user, si) ==
    [user EXCEPT !.steps[si].status = REJECTED, !.status = REJECTED,
                 !.steps[si].tasks = [t \in DOMAIN @ |-> [@[t] EXCEPT !.status = REJECTED]]]

\* a plausible slip: the rejected step starts over
rejected_TaskCursorReset(user, si) ==
    [user EXCEPT !.steps[si].status = REJECTED, !.status = REJECTED,
                 !.steps[si].current_task_index = 0]

\* a plausible slip: the rejection reaches the step but not the user
rejected_StepOnly(user, si) ==
    [user EXCEPT !.steps[si].status = REJECTED]

\* progress, the task was rejected: cur_step.status = user.status = REJECTED
\* (si is the position of the current step in the sequence)
rejected(user, si) ==
    [user EXCEPT !.steps[si].status = REJECTED, !.status = REJECTED]

\* a plausible slip: the task cursor moves on from the last task too
advanced_PastLastTask(user, si) ==
    IF user.steps[si].current_task_index <= Len(user.steps[si].tasks) - 1
    THEN [user EXCEPT !.steps[si].current_task_index = @ + 1]
    ELSE IF user.current_step_index < Len(user.steps) - 1
    THEN [user EXCEPT !.steps[si].status = COMPLETED,
                      !.current_step_index = @ + 1]
    ELSE [user EXCEPT !.steps[si].status = COMPLETED, !.status = ACCEPTED]

\* a plausible slip: the step is left behind without being marked completed
advanced_StepNotMarked(user, si) ==
    IF user.steps[si].current_task_index < Len(user.steps[si].tasks) - 1
    THEN [user EXCEPT !.steps[si].current_task_index = @ + 1]
    ELSE IF user.current_step_index < Len(user.steps) - 1
    THEN [user EXCEPT !.current_step_index = @ + 1]
    ELSE [user EXCEPT !.steps[si].status = COMPLETED, !.status = ACCEPTED]

\* a plausible slip: the last step is taken to be the one before it
advanced_AcceptsOneStepEarly(user, si) ==
    IF user.steps[si].current_task_index < Len(user.steps[si].tasks) - 1
    THEN [user EXCEPT !.steps[si].current_task_index = @ + 1]
    ELSE IF user.current_step_index < Len(user.steps) - 2
    THEN [user EXCEPT !.steps[si].status = COMPLETED,
                      !.current_step_index = @ + 1]
    ELSE [user EXCEPT !.steps[si].status = COMPLETED, !.status = ACCEPTED]

\* progress, the task was not rejected: the cursors move on
advanced(user, si) ==
    IF user.steps[si].current_task_index < Len(user.steps[si].tasks) - 1
    THEN [user EXCEPT !.steps[si].current_task_index = @ + 1]
    ELSE IF user.current_step_index < Len(user.steps) - 1
    THEN [user EXCEPT !.steps[si].status = COMPLETED,
                      !.current_step_index = @ + 1]
    ELSE [user EXCEPT !.steps[si].status = COMPLETED, !.status = ACCEPTED]

\* progress: [user, ok, raised].  raised is "IndexError" when the current
\* step cannot be resolved and "TypeError" when the condition cannot be
\* called on the value; the user is then unchanged.
progress(user, condition_var) ==
    IF ~HasCurrentStep(user)
    THEN [user |-> user, ok |-> FALSE, raised |-> "IndexError"]
    ELSE
    LET si == user.current_step_index + 1
        ti == user.steps[si].current_task_index + 1
        cur_task == user.steps[si].tasks[ti]
    IN IF cur_task.condition # None
          /\ CallCondition(cur_task.condition, condition_var) = "raise"
       THEN [user |-> user, ok |-> FALSE, raised |-> "TypeError"]
       ELSE
       LET checked == IF cur_task.condition # None
                      THEN check_completion(cur_task, condition_var)
                      ELSE cur_task
           u1 == [user EXCEPT !.steps[si].tasks[ti] = checked]
       IN IF checked.status = REJECTED
          THEN [user |-> rejected(u1, si), ok |-> FALSE, raised |-> ""]
          ELSE [user |-> advanced(u1, si), ok |-> TRUE, raised |-> ""]

\* flow.add_step / remove_step / modify_step: [user, error, raised]; error is
\* the message of the exception the function catches (answered with 400),
\* raised the exception it lets through
flow_add_step(user, step_name, tasks, index) ==
    LET r == User_add_step(user, Step(step_name, tasks), index)
    IN IF r.raised = "IndexError"
       THEN [user |-> r.user, error |-> "Index out of range", raised |-> ""]
       ELSE [user |-> r.user, error |-> NoError, raised |-> r.raised]

flow_remove_step(user, step_name, index) ==
    LET r == User_remove_step(user, step_name, index)
    IN IF r.raised \in {"ValueError: Index out of range", "ValueError: not found",
                        "ValueError: name or index"}
       THEN [user |-> r.user, error |-> r.raised, raised |-> ""]
       ELSE [user |-> r.user, error |-> NoError, raised |-> r.raised]

flow_modify_step(user, new_step_name, step_name, index, tasks) ==
    LET r == User_modify_step(user, Step(new_step_name, tasks), step_name, index)
    IN IF r.raised \in {"ValueError: not found", "ValueError: name or index"}
       THEN [user |-> r.user, error |-> r.raised, raised |-> ""]
       ELSE [user |-> r.user, error |-> NoError, raised |-> r.raised]

(***************************************************************************)
(* controllers.py: responses and payloads.                                 *)
(* A response is [code, body, detail]: the status code, the message (the   *)
(* names the source interpolates into it left out) and the list the        *)
(* message enumerates.  An exception that no handler catches is answered   *)
(* by the framework with code 500.  A payload is a                         *)
(* function from field names to values, Absent for a key it does not hold. *)
(***************************************************************************)
Resp(code, body, detail) == [code |-> code, body |-> body, detail |-> detail]
InternalError(exception) == Resp(500, "Internal Server Error", <<exception>>)

Has(payload, key) == key \in DOMAIN payload /\ payload[key] # Absent
\* payload.get(key)
Get(payload, key) == IF Has(payload, key) THEN payload[key] ELSE PyNone
\* "not payload": None or the empty dictionary
IsEmptyPayload(payload) == \A k \in DOMAIN payload : payload[k] = Absent
\* truth value of a Python value
Truthy(v) == v \notin {PyNone, Absent, PyStr(""), PyInt(0)}

\* validate_task_payload: the 400 response, or NoError / the exception in body
validate_task_payload(task, task_payload) ==
    LET missing_fields == SelectSeq(task.required_fields,
                                    LAMBDA field : ~Has(task_payload, field))
        failing == {i \in DOMAIN task.required_fields :
                      validate_field(task.required_fields[i],
                                     task_payload[task.required_fields[i]]) # NoError}
    IN IF missing_fields # <<>>
       THEN Resp(400, "Missing required fields", missing_fields)
       ELSE IF failing = {}
       THEN Resp(0, NoError, <<>>)
       ELSE LET first == CHOOSE i \in failing : \A j \in failing : i <= j
                field == task.required_fields[first]
                error == validate_field(field, task_payload[field])
            IN IF error \in Raises
               THEN Resp(0, error, <<>>)
               ELSE Resp(400, error, <<>>)

\* complete_task_process(user, task, task_payload), task being the task at
\* the 0-based position pos = <<step, task>> of user.steps.
\* Returns [user, response, adv]; adv lists the progress() calls made:
\* the position validated, the position progress() acted on and its result.
complete_task_process(user, pos, task_payload) ==
    LET task == user.steps[pos[1] + 1].tasks[pos[2] + 1]
        validation_error == validate_task_payload(task, task_payload)
        condition_var == Get(task_payload, "condition_var")
        condition_value == IF Truthy(condition_var) /\ condition_var[1] = "str"
                           THEN Get(task_payload, condition_var[2])
                           ELSE PyNone
        p == progress(user, condition_value)
    IN IF validation_error.body = Raise
       THEN [user |-> user, response |-> InternalError("TypeError"), adv |-> <<>>]
       ELSE IF validation_error.body = RaiseAttributeError
       THEN [user |-> user, response |-> InternalError("AttributeError"), adv |-> <<>>]
       ELSE IF validation_error.body # NoError
       THEN [user |-> user, response |-> validation_error, adv |-> <<>>]
       ELSE IF task.condition # None /\ ~Truthy(condition_var)
       THEN [user |-> user,
             response |-> Resp(400, "Task has condition but 'condition_var' wasn't provided",
                               <<>>),
             adv |-> <<>>]
       ELSE IF p.raised # ""
       THEN [user |-> user, response |-> InternalError(p.raised), adv |-> <<>>]
       ELSE LET a == [validated |-> pos,
                      progressed |-> get_current_step_and_task(user),
                      ok |-> p.ok]
            IN IF ~p.ok
               THEN [user |-> p.user, response |-> Resp(500, "Condition failed", <<>>),
                     adv |-> <<a>>]
               ELSE [user |-> p.user,
                     response |-> Resp(200, "Task marked as completed", <<>>),
                     adv |-> <<a>>]

\* PUT /users/<user_id>/steps/<step_name>/tasks/<task_name>, user found
complete_task(user, step_name, task_name, task_payload) ==
    IF IsEmptyPayload(task_payload)
    THEN [user |-> user, response |-> Resp(400, "Task payload is required", <<>>),
          adv |-> <<>>]
    ELSE IF step_name \notin user.steps_names
    THEN [user |-> user, response |-> Resp(404, "This step do not exist", <<>>),
          adv |-> <<>>]
    ELSE IF ~HasCurrentStep(user)
    THEN [user |-> user, response |-> InternalError("IndexError"), adv |-> <<>>]
    ELSE IF CurStep(user).step_name # step_name
    THEN [user |-> user, response |-> Resp(400, "Step is not the current step", <<>>),
          adv |-> <<>>]
    ELSE IF task_name \notin CurStep(user).tasks_names
    THEN [user |-> user, response |-> Resp(404, "Task not found.", <<>>), adv |-> <<>>]
    ELSE IF CurTask(user).task_name # task_name
    THEN [user |-> user, response |-> Resp(400, "Task is not the current task", <<>>),
          adv |-> <<>>]
    ELSE IF CurTask(user).status = COMPLETED
    THEN [user |-> user, response |-> Resp(400, "Task already completed", <<>>),
          adv |-> <<>>]
    ELSE complete_task_process(user, get_current_step_and_task(user), task_payload)

\* the loop "for task in step.tasks" of complete_step, from the task at
\* 0-based position j of the step at 0-based position s on
RECURSIVE complete_step_loop(_, _, _, _, _, _)
complete_step_loop(user, s, j, step_name, step_payload, adv) ==
    LET step == user.steps[s + 1]
    IN IF j >= Len(step.tasks)
       THEN [user |-> user, response |-> Resp(200, "Step marked as completed", <<>>),
             adv |-> adv]
       ELSE
       LET task == step.tasks[j + 1]
           task_payload == IF task.task_name \in DOMAIN step_payload
                           THEN step_payload[task.task_name]
                           ELSE <<>>
           r == complete_task_process(user, <<s, j>>, task_payload)
       IN IF task.status = COMPLETED
          THEN complete_step_loop(user, s, j + 1, step_name, step_payload, adv)
          ELSE IF IsEmptyPayload(task_payload)
          THEN [user |-> user,
                response |-> Resp(400, "Missing payload for task", <<task.task_name>>),
                adv |-> adv]
          ELSE IF r.response.code # 200
          THEN [user |-> r.user, response |-> r.response, adv |-> adv \o r.adv]
          ELSE complete_step_loop(r.user, s, j + 1, step_name, step_payload,
                                  adv \o r.adv)

\* PUT /users/<user_id>/complete_step/<step_name>, user found
complete_step(user, step_name, step_payload) ==
    IF step_name \notin user.steps_names
    THEN [user |-> user, response |-> Resp(404, "This step do not exist", <<>>),
          adv |-> <<>>]
    ELSE IF ~HasCurrentStep(user)
    THEN [user |-> user, response |-> InternalError("IndexError"), adv |-> <<>>]
    ELSE IF CurStep(user).step_name # step_name
    THEN [user |-> user, response |-> Resp(400, "Step is not the current step", <<>>),
          adv |-> <<>>]
    ELSE IF CurStep(user).status = COMPLETED
    THEN [user |-> user, response |-> Resp(400, "Step already completed", <<>>),
          adv |-> <<>>]
    ELSE complete_step_loop(user, user.current_step_index, 0, step_name,
                            step_payload, <<>>)

\* POST /users/<user_id>/add_step, user found: [user, response]
add_step_to_user(user, step_name, index, tasks_data) ==
    IF step_name = ""
    THEN [user |-> user, response |-> Resp(400, "Step name cannot be empty", <<>>)]
    ELSE IF step_name \in user.steps_names
    THEN [user |-> user, response |-> Resp(400, "Step already exists", <<>>)]
    ELSE IF check_empty_task_names(tasks_data) # NoError
    THEN [user |-> user, response |-> Resp(400, check_empty_task_names(tasks_data), <<>>)]
    ELSE IF check_duplicate_task_names(tasks_data) # NoError
    THEN [user |-> user, response |-> Resp(400, check_duplicate_task_names(tasks_data), <<>>)]
    ELSE IF create_task_list(tasks_data).error # NoError
    THEN [user |-> user, response |-> Resp(400, create_task_list(tasks_data).error, <<>>)]
    ELSE LET r == flow_add_step(user, step_name, create_task_list(tasks_data).tasks, index)
         IN IF r.raised # ""
            THEN [user |-> r.user, response |-> InternalError(r.raised)]
            ELSE IF r.error # NoError
            THEN [user |-> r.user, response |-> Resp(400, r.error, <<>>)]
            ELSE [user |-> r.user, response |-> Resp(200, "Step added", <<>>)]

\* DELETE /users/<user_id>/remove_step, user found: [user, response]
remove_step_from_user(user, step_name, index) ==
    IF step_name # None /\ step_name \notin user.steps_names
    THEN [user |-> user, response |-> Resp(400, "This step do not exist", <<>>)]
    ELSE IF index # NoIndex /\ index = user.current_step_index
    THEN [user |-> user, response |-> Resp(400, "Cannot remove an in-progress step", <<>>)]
    ELSE IF step_name # None /\ ~HasCurrentStep(user)
    THEN [user |-> user, response |-> InternalError("IndexError")]
    ELSE IF step_name # None /\ CurStep(user).step_name = step_name
    THEN [user |-> user, response |-> Resp(400, "Cannot remove an in-progress step", <<>>)]
    ELSE LET r == flow_remove_step(user, step_name, index)
         IN IF r.raised # ""
            THEN [user |-> r.user, response |-> InternalError(r.raised)]
            ELSE IF r.error # NoError
            THEN [user |-> r.user, response |-> Resp(400, r.error, <<>>)]
            ELSE [user |-> r.user, response |-> Resp(200, "Step removed successfully", <<>>)]

\* PUT /users/<user_id>/modify_step, user found: [user, response]
modify_step_for_user(user, new_step_name, step_name, index, tasks_data) ==
    IF new_step_name = ""
    THEN [user |-> user, response |-> Resp(400, "New step's name cannot be empty", <<>>)]
    ELSE IF new_step_name \in user.steps_names
    THEN [user |-> user, response |-> Resp(400, "Step already exists", <<>>)]
    ELSE IF step_name # None /\ step_name \notin user.steps_names
    THEN [user |-> user, response |-> Resp(400, "This step do not exist", <<>>)]
    ELSE IF check_empty_task_names(tasks_data) # NoError
    THEN [user |-> user, response |-> Resp(400, check_empty_task_names(tasks_data), <<>>)]
    ELSE IF check_duplicate_task_names(tasks_data) # NoError
    THEN [user |-> user, response |-> Resp(400, check_duplicate_task_names(tasks_data), <<>>)]
    ELSE IF create_task_list(tasks_data).error # NoError
    THEN [user |-> user, response |-> Resp(400, create_task_list(tasks_data).error, <<>>)]
    ELSE LET r == flow_modify_step(user, new_step_name, step_name, index,
                                   create_task_list(tasks_data).tasks)
         IN IF r.raised # ""
            THEN [user |-> r.user, response |-> InternalError(r.raised)]
            ELSE IF r.error # NoError
            THEN [user |-> r.user, response |-> Resp(400, r.error, <<>>)]
            ELSE [user |-> r.user, response |-> Resp(200, "Step modified", <<>>)]

\* the user create_user builds: the steps of the flow added one by one
RECURSIVE AddAll(_, _, _)
AddAll(user, steps, i) ==
    IF i > Len(steps) THEN user
    ELSE AddAll(User_add_step(user, steps[i], NoIndex).user, steps, i + 1)

(***************************************************************************)
(* The requests the model submits.                                         *)
(***************************************************************************)
\* number of users registered at a time
MaxUsers == 3
\* the values str(uuid4()) takes, in the order create_user draws them
AllUserIds == <<"u1", "u2", "u3", "u4", "u5">>
UserIds == {AllUserIds[i] : i \in 1 .. MaxUsers}

\* the value a well-formed request carries for a field
Good(field) ==
    CASE field = "first_name" -> PyStr("Bob")
      [] field = "last_name" -> PyStr("Adams")
      [] field = "email" -> PyStr("test3@example.com")
      [] field = "timestamp" -> PyStr("2024-01-01 12:00:00")
      [] field = "test_id" -> PyInt(100)
      [] field = "score" -> PyInt(90)
      [] field = "interview_date" -> PyStr("2024-08-01")
      [] field = "interviewer_id" -> PyStr("123456789")
      [] field = "decision" -> PyStr("passed_interview")
      [] field = "passport_number" -> PyStr("123456789")
      [] field = "payment_id" -> PyStr("123")
      [] field = "condition_var" -> PyStr("score")
      [] OTHER -> PyStr("abc")

\* other values a request may carry for it (besides leaving it out)
Cand(field) ==
    CASE field = "first_name" -> {PyStr("B0b")}
      [] field = "email" -> {PyStr("bademail@")}
      [] field = "timestamp" -> {PyStr("yesterday")}
      [] field = "score" -> {PyInt(70), PyInt(75), PyInt(76), PyStr("90"), PyInt(101)}
      [] field = "interview_date" -> {PyStr("01/08/2024")}
      [] field = "decision" -> {PyStr("failed_interview")}
      [] field = "passport_number" -> {PyStr("A1-B2"), PyInt(123456789)}
      [] field = "condition_var" -> {PyStr("test_id"), PyStr("decision"), PyStr("note")}
      [] field = "note" -> {PyStr("")}
      [] OTHER -> {}

\* the fields a condition reads: requests vary them freely
ConditionFields == {"score", "decision", "condition_var"}

\* every payload over the given fields
RECURSIVE PayloadsOver(_)
PayloadsOver(fields) ==
    IF fields = {} THEN {<<>>}
    ELSE LET f == CHOOSE x \in fields : TRUE
         IN {(f :> v) @@ p : v \in {Good(f)} \cup Cand(f) \cup {Absent},
                              p \in PayloadsOver(fields \ {f})}

Range(seq) == {seq[i] : i \in DOMAIN seq}

\* Payloads submitted for a task.  Keys: its required fields and
\* condition_var, condition_var naming one of the fields when it is given.
\* Either the fields no condition reads are all well-formed, or one of them
\* is missing or malformed and the others are well-formed; and the payload
\* {"invalid_field": ...} that holds none of the fields.
PayloadsFor(task) ==
    LET fields == Range(task.required_fields) \cup {"condition_var"}
        plain == fields \ ConditionFields
        base == [f \in fields |-> IF f = "condition_var" /\ f \notin Range(task.required_fields)
                                  THEN Absent ELSE Good(f)]
        cv(p) == Has(p, "condition_var") => p["condition_var"][2] \in Range(task.required_fields)
    IN {p \in {q @@ base : q \in PayloadsOver(fields \cap ConditionFields)} : cv(p)}
       \cup UNION {{[base EXCEPT ![f] = v] : v \in Cand(f) \cup {Absent}} : f \in plain}
       \cup {("invalid_field" :> PyStr("abc")) @@ [f \in fields |-> Absent]}

SmallPayloads == {<<>>, "invalid_field" :> PyStr("abc")}

\* Payloads per task name submitted to complete_step for a step: every task
\* has its well-formed payload, or one of them has any other of its payloads
\* or none.
StepPayloadsFor(step) ==
    LET forName(n) == UNION {PayloadsFor(step.tasks[i]) :
                               i \in {j \in DOMAIN step.tasks : step.tasks[j].task_name = n}}
                      \cup {<<>>}
        wellFormed(n) ==
            LET task == step.tasks[CHOOSE j \in DOMAIN step.tasks : step.tasks[j].task_name = n]
                required == Range(task.required_fields) \ {"condition_var"}
                read == IF required \cap ConditionFields # {}
                        THEN required \cap ConditionFields ELSE required
                named == IF task.condition = None \/ read = {} THEN Absent
                         ELSE PyStr(CHOOSE f \in read : TRUE)
            IN [f \in required \cup {"condition_var"} |->
                  IF f = "condition_var" THEN named ELSE Good(f)]
        base == [n \in step.tasks_names |-> wellFormed(n)]
    IN {base} \cup UNION {{[base EXCEPT ![n] = p] : p \in forName(n)} : n \in step.tasks_names}

\* tasks of a request that adds or modifies a step
TD(task_name, required_fields, condition) ==
    [task_name |-> task_name, required_fields |-> required_fields,
     condition |-> condition]

TwoTasks == <<TD("t1", <<"note">>, None), TD("t2", <<>>, None)>>
GoodTaskLists == {<<>>, TwoTasks}
BadTaskLists ==
    { <<TD("t1", <<"note">>, None), TD("t1", <<>>, None)>>,
      <<TD("", <<>>, None)>>,
      <<TD(None, <<>>, None)>> }

SD(step_name, tasks) == [step_name |-> step_name, tasks |-> tasks]

\* the default flow: create_user without "steps"
DefaultFlow == <<>>
\* the "steps" of create_user requests that define their own flow
CustomFlows ==
    { <<SD("A", <<>>), SD("B", TwoTasks)>>,
      <<SD("A", <<>>), SD("B", <<>>), SD("B", <<>>)>>,
      <<SD("A", <<TD("t3", <<"note">>, JsonCondition)>>)>>,
      <<SD("A", <<TD(None, <<>>, None)>>)>>,
      <<SD("A", <<TD("t1", <<>>, None), TD("t1", <<>>, None)>>)>> }

\* largest index a structural request names, besides the out-of-range ones
MaxIndex == 2
OutOfRangeIndex == 10
Indexes == {NoIndex, -1, OutOfRangeIndex} \cup (0 .. MaxIndex)

CreateEmails == {PyStr("a@b.com"), PyStr("bademail@"), PyNone}

(***************************************************************************)
(* State.                                                                  *)
(*   users_db      controllers.users_db: user id -> User                   *)
(*   users_emails  controllers.users_emails                                *)
(*   response      the response to the last request                        *)
(*   adv           the progress() calls of the last request                *)
(*   history       per user: whether every request since its creation was  *)
(*                 a successful complete_task, and how many there were     *)
(*   mutations     number of successful structural requests so far         *)
(***************************************************************************)
VARIABLES users_db, users_emails, response, adv, history, mutations

vars == <<users_db, users_emails, response, adv, history, mutations>>

NotFound == Resp(404, "User not found", <<>>)

Init ==
    /\ users_db = <<>>
    /\ users_emails = {}
    /\ response = Resp(0, "", <<>>)
    /\ adv = <<>>
    /\ history = <<>>
    /\ mutations = 0

\* the request is answered without touching any user
Answer(r) ==
    /\ response' = r
    /\ adv' = <<>>
    /\ UNCHANGED <<users_db, users_emails, mutations>>

Broken == [clean |-> FALSE, completions |-> 0]

\* uuid4(): an identifier no registered user has (the first such of AllUserIds)
FreshUserId ==
    AllUserIds[CHOOSE i \in 1 .. MaxUsers :
                 /\ AllUserIds[i] \notin DOMAIN users_db
                 /\ \A j \in 1 .. i - 1 : AllUserIds[j] \in DOMAIN users_db]

\* a plausible slip: the email is not looked up in users_emails
create_user_DuplicateUnchecked(email, custom_steps_data) ==
    IF ~Truthy(email)
    THEN Answer(Resp(400, "Email is required.", <<>>)) /\ UNCHANGED history
    ELSE IF validate_field("email", email) # NoError
    THEN Answer(Resp(400, validate_field("email", email), <<>>)) /\ UNCHANGED history
    ELSE UserIds \ DOMAIN users_db # {} /\
           LET user_id == FreshUserId
               flow == create_admissions_flow(custom_steps_data)
           IN IF flow.raised # ""
              THEN Answer(InternalError(flow.raised)) /\ UNCHANGED history
              ELSE /\ users_db' = (user_id :> AddAll(User(email[2]), flow.steps, 1))
                                      @@ users_db
                   /\ users_emails' = users_emails \cup {email[2]}
                   /\ response' = Resp(201, "user_id", <<user_id>>)
                   /\ adv' = <<>>
                   /\ history' = (user_id :> [clean |-> TRUE, completions |-> 0])
                                     @@ history
                   /\ UNCHANGED mutations

\* POST /users
create_user(email, custom_steps_data) ==
    IF ~Truthy(email)
    THEN Answer(Resp(400, "Email is required.", <<>>)) /\ UNCHANGED history
    ELSE IF validate_field("email", email) # NoError
    THEN Answer(Resp(400, validate_field("email", email), <<>>)) /\ UNCHANGED history
    ELSE IF email[2] \in users_emails
    THEN Answer(Resp(409, "Email already exists.", <<>>)) /\ UNCHANGED history
    ELSE UserIds \ DOMAIN users_db # {} /\
           LET user_id == FreshUserId
               flow == create_admissions_flow(custom_steps_data)
           IN IF flow.raised # ""
              THEN Answer(InternalError(flow.raised)) /\ UNCHANGED history
              ELSE /\ users_db' = (user_id :> AddAll(User(email[2]), flow.steps, 1))
                                      @@ users_db
                   /\ users_emails' = users_emails \cup {email[2]}
                   /\ response' = Resp(201, "user_id", <<user_id>>)
                   /\ adv' = <<>>
                   /\ history' = (user_id :> [clean |-> TRUE, completions |-> 0])
                                     @@ history
                   /\ UNCHANGED mutations

\* a request on a user that is not registered
OnUnknownUser(user_id) ==
    /\ user_id \notin DOMAIN users_db
    /\ Answer(NotFound)
    /\ UNCHANGED history

\* GET /users/<user_id>/status
get_user_status(user_id) ==
    /\ user_id \in DOMAIN users_db
    /\ Answer(Resp(200, check_user_status(users_db[user_id]), <<>>))
    /\ history' = [history EXCEPT ![user_id] = Broken]

\* a plausible slip: the old email stays in users_emails
update_user_email_OldEmailKept(user_id, new_email) ==
    /\ user_id \in DOMAIN users_db
    /\ IF ~Truthy(new_email)
       THEN Answer(Resp(400, "Email is required", <<>>)) /\ UNCHANGED history
       ELSE IF validate_field("email", new_email) # NoError
       THEN Answer(Resp(400, validate_field("email", new_email), <<>>))
            /\ UNCHANGED history
       ELSE IF new_email[2] \in users_emails
       THEN Answer(Resp(409, "Email already exists.", <<>>)) /\ UNCHANGED history
       ELSE /\ users_db' = [users_db EXCEPT ![user_id].email = new_email[2]]
            /\ users_emails' = users_emails \cup {new_email[2]}
            /\ response' = Resp(200, "Email updated successfully", <<>>)
            /\ adv' = <<>>
            /\ history' = [history EXCEPT ![user_id] = Broken]
            /\ UNCHANGED mutations

\* PATCH /users/<user_id>/update_email
update_user_email(user_id, new_email) ==
    /\ user_id \in DOMAIN users_db
    /\ IF ~Truthy(new_email)
       THEN Answer(Resp(400, "Email is required", <<>>)) /\ UNCHANGED history
       ELSE IF validate_field("email", new_email) # NoError
       THEN Answer(Resp(400, validate_field("email", new_email), <<>>))
            /\ UNCHANGED history
       ELSE IF new_email[2] \in users_emails
       THEN Answer(Resp(409, "Email already exists.", <<>>)) /\ UNCHANGED history
       ELSE LET old_email == users_db[user_id].email
            IN /\ old_email \in users_emails      \* else set.remove raises KeyError
               /\ users_db' = [users_db EXCEPT ![user_id].email = new_email[2]]
               /\ users_emails' = (users_emails \ {old_email}) \cup {new_email[2]}
               /\ response' = Resp(200, "Email updated successfully", <<>>)
               /\ adv' = <<>>
               /\ history' = [history EXCEPT ![user_id] = Broken]
               /\ UNCHANGED mutations

\* a function without the key k
Without(f, k) == [x \in DOMAIN f \ {k} |-> f[x]]

\* a plausible slip: the email of the deleted user stays in users_emails
delete_user_EmailKept(user_id) ==
    /\ user_id \in DOMAIN users_db
    /\ users_db' = Without(users_db, user_id)
    /\ response' = Resp(200, "User deleted", <<>>)
    /\ adv' = <<>>
    /\ history' = Without(history, user_id)
    /\ UNCHANGED <<users_emails, mutations>>

\* DELETE /users/<user_id>
delete_user(user_id) ==
    /\ user_id \in DOMAIN users_db
    /\ users_db[user_id].email \in users_emails   \* else set.remove raises KeyError
    /\ users_db' = Without(users_db, user_id)
    /\ users_emails' = users_emails \ {users_db[user_id].email}
    /\ response' = Resp(200, "User deleted", <<>>)
    /\ adv' = <<>>
    /\ history' = Without(history, user_id)
    /\ UNCHANGED mutations

\* the effect of a completion request answered with r = [user, response, adv]
Completed(user_id, r) ==
    /\ users_db' = [users_db EXCEPT ![user_id] = r.user]
    /\ response' = r.response
    /\ adv' = r.adv
    /\ UNCHANGED <<users_emails, mutations>>

CompleteTask(user_id, step_name, task_name, task_payload) ==
    /\ user_id \in DOMAIN users_db
    /\ LET r == complete_task(users_db[user_id], step_name, task_name, task_payload)
       IN /\ Completed(user_id, r)
          /\ history' = [history EXCEPT ![user_id] =
                           IF @.clean /\ r.response.code = 200
                              /\ @.completions < MaxCompletions
                           THEN [clean |-> TRUE, completions |-> @.completions + 1]
                           ELSE Broken]

CompleteStep(user_id, step_name, step_payload) ==
    /\ user_id \in DOMAIN users_db
    /\ Completed(user_id, complete_step(users_db[user_id], step_name, step_payload))
    /\ history' = [history EXCEPT ![user_id] = Broken]

\* the effect of a structural request answered with r = [user, response]
Mutated(user_id, r) ==
    /\ r.user # users_db[user_id] => mutations < MaxMutations
    /\ users_db' = [users_db EXCEPT ![user_id] = r.user]
    /\ response' = r.response
    /\ adv' = <<>>
    /\ mutations' = IF r.user # users_db[user_id] THEN mutations + 1 ELSE mutations
    /\ history' = [history EXCEPT ![user_id] = Broken]
    /\ UNCHANGED users_emails

AddStep(user_id, step_name, index, tasks_data) ==
    /\ user_id \in DOMAIN users_db
    /\ Mutated(user_id, add_step_to_user(users_db[user_id], step_name, index, tasks_data))

RemoveStep(user_id, step_name, index) ==
    /\ user_id \in DOMAIN users_db
    /\ Mutated(user_id, remove_step_from_user(users_db[user_id], step_name, index))

ModifyStep(user_id, new_step_name, step_name, index, tasks_data) ==
    /\ user_id \in DOMAIN users_db
    /\ Mutated(user_id, modify_step_for_user(users_db[user_id], new_step_name,
                                             step_name, index, tasks_data))

\* names a request may give for a step or a task of the user
UrlStepNames(user) ==
    ({"Nonexistent Step"}
       \cup (IF HasCurrentStep(user) THEN {CurStep(user).step_name} ELSE {})
       \cup {user.steps[i].step_name : i \in DOMAIN user.steps \cap {1, Len(user.steps)}})
    \ {None}

UrlTaskNames(user) ==
    ({"Nonexistent Task"}
       \cup (IF HasCurrentStep(user) THEN CurStep(user).tasks_names ELSE {}))
    \ {None}

TaskPayloads(user, step_name, task_name) ==
    IF HasCurrentStep(user) /\ CurStep(user).step_name = step_name
       /\ CurTask(user).task_name = task_name
    THEN PayloadsFor(CurTask(user))
    ELSE SmallPayloads

StepPayloads(user, step_name) ==
    IF HasCurrentStep(user) /\ CurStep(user).step_name = step_name
    THEN StepPayloadsFor(CurStep(user))
    ELSE {<<>>}

\* The requests of a specification, rq:
\*   flows    the "steps" of the create_user requests
\*   emails   their "email"
\*   fresh    names given to new steps
\*   refused  names given to new steps that are empty or may be in use
\*   bad      task lists that are refused
\*   with     indexes given together with a step name

\* the requests that add a step: <<step_name, index, tasks>>
AddRequests(rq) ==
    (rq.fresh \X Indexes \X GoodTaskLists)
      \cup (rq.refused \X {NoIndex} \X {<<>>})
      \cup (rq.fresh \X {NoIndex} \X rq.bad)

\* the ways a request designates a step: <<step_name, index>>
Targets(user, rq) ==
    ({None} \X Indexes)
      \cup (UrlStepNames(user) \X {NoIndex})
      \cup ((UrlStepNames(user) \ {"Nonexistent Step"}) \X rq.with)

\* the requests that modify a step: <<new_step_name, <<step_name, index>>, tasks>>
ModifyRequests(user, rq) ==
    (rq.fresh \X Targets(user, rq) \X {TwoTasks})
      \cup (rq.fresh \X {<<None, 0>>, <<None, 1>>} \X {<<>>})
      \cup (rq.refused \X {<<None, 0>>} \X {<<>>})
      \cup ({user.steps[i].step_name : i \in DOMAIN user.steps \cap {1}} \ {None})
             \X {<<None, 0>>} \X {TwoTasks}
      \cup (rq.fresh \X {<<None, 0>>} \X rq.bad)

NextOn(rq) ==
    \/ \E email \in rq.emails, steps \in rq.flows : create_user(email, steps)
    \/ \E user_id \in UserIds : OnUnknownUser(user_id)
    \/ \E user_id \in UserIds : get_user_status(user_id)
    \/ \E user_id \in DOMAIN users_db :
         \E step_name \in UrlStepNames(users_db[user_id]),
            task_name \in UrlTaskNames(users_db[user_id]) :
           \E task_payload \in TaskPayloads(users_db[user_id], step_name, task_name) :
              CompleteTask(user_id, step_name, task_name, task_payload)
    \/ \E user_id \in DOMAIN users_db :
         \E step_name \in UrlStepNames(users_db[user_id]) :
           \E step_payload \in StepPayloads(users_db[user_id], step_name) :
              CompleteStep(user_id, step_name, step_payload)
    \/ \E user_id \in DOMAIN users_db :
         \E req \in AddRequests(rq) :
            AddStep(user_id, req[1], req[2], req[3])
    \/ \E user_id \in DOMAIN users_db :
         \E target \in Targets(users_db[user_id], rq) :
            RemoveStep(user_id, target[1], target[2])
    \/ \E user_id \in DOMAIN users_db :
         \E req \in ModifyRequests(users_db[user_id], rq) :
            ModifyStep(user_id, req[1], req[2][1], req[2][2], req[3])

\* users created with a flow of their own
CustomRequests ==
    [flows |-> CustomFlows, emails |-> CreateEmails, fresh |-> {"C", "D"},
     refused |-> {"", "A"}, bad |-> BadTaskLists, with |-> {0}]
Next == NextOn(CustomRequests)

\* users created with the default flow
DefaultRequests ==
    [flows |-> {DefaultFlow}, emails |-> {PyStr("a@b.com")}, fresh |-> {"Custom Step"},
     refused |-> {"IQ Test"}, bad |-> {}, with |-> {}]
NextDefault == NextOn(DefaultRequests)

\* the registry: users come, change their email and go
RegistryEmails ==
    {PyStr("a@b.com"), PyStr("A@b.com"), PyStr("c@d.com"), PyStr("bademail@"), PyNone}
NextRegistry ==
    \/ \E email \in RegistryEmails : create_user(email, DefaultFlow)
    \/ \E user_id \in UserIds : OnUnknownUser(user_id)
    \/ \E user_id \in UserIds, email \in RegistryEmails : update_user_email(user_id, email)
    \/ \E user_id \in UserIds : delete_user(user_id)

Spec == Init /\ [][Next]_vars
SpecRegistry == Init /\ [][NextRegistry]_vars
SpecDefault == Init /\ [][NextDefault]_vars

(***************************************************************************)
(* Properties.                                                             *)
(***************************************************************************)
StepNamesOf(user) == {user.steps[i].step_name : i \in DOMAIN user.steps}
TaskAt(user, pos) == user.steps[pos[1] + 1].tasks[pos[2] + 1]
Terminal(user) == user.status \in {ACCEPTED, REJECTED}
\* the user is registered before and after the step
Stays(user_id) == user_id \in DOMAIN users_db /\ user_id \in DOMAIN users_db'
\* the step is a completion request (or a request that changed no flow)
NoMutation == mutations' = mutations
ConditionFailed == Resp(500, "Condition failed", <<>>)
TaskCompleted == Resp(200, "Task marked as completed", <<>>)

\* C1: in every reachable state, every user's steps_names equals the set of
\* the step_name values of the steps in user.steps.
C1_StepNamesMirrorSteps ==
    \A u \in DOMAIN users_db : users_db[u].steps_names = StepNamesOf(users_db[u])

\* C2: in every reachable state no user holds two steps with the same name.
C2_StepNamesUnique ==
    \A u \in DOMAIN users_db :
      \A i, j \in DOMAIN users_db[u].steps :
        i # j => users_db[u].steps[i].step_name # users_db[u].steps[j].step_name

\* C3: while a user's status is IN_PROGRESS, 0 <= current_step_index < len(steps).
C3_CursorInRange ==
    \A u \in DOMAIN users_db :
      users_db[u].status = IN_PROGRESS =>
        /\ 0 <= users_db[u].current_step_index
        /\ users_db[u].current_step_index < Len(users_db[u].steps)

\* C4: ACCEPTED and REJECTED are terminal: once a user's status is one of
\* them, no step changes it.
C4_TerminalStatusKept ==
    [][\A u \in UserIds :
         Stays(u) /\ Terminal(users_db[u]) => users_db'[u].status = users_db[u].status]_vars

\* C5: once a user's status is ACCEPTED or REJECTED, a complete_task or
\* complete_step call changes no cursor and no step or task status.
C5_TerminalFlowFrozen ==
    [][\A u \in UserIds :
         Stays(u) /\ Terminal(users_db[u]) /\ NoMutation
           => /\ users_db'[u].current_step_index = users_db[u].current_step_index
              /\ users_db'[u].steps = users_db[u].steps]_vars

\* C6: a completion request in which progress() rejects a task leaves that
\* task, its step and the user REJECTED and answers 'Condition failed'; the
\* status request then answers "rejected" (it answers the user's status).
C6_RejectionPropagates ==
    [][\A u \in UserIds :
         Stays(u) =>
           /\ \A i \in DOMAIN adv' :
                ~adv'[i].ok =>
                  /\ TaskAt(users_db'[u], adv'[i].progressed).status = REJECTED
                  /\ users_db'[u].steps[adv'[i].progressed[1] + 1].status = REJECTED
                  /\ users_db'[u].status = REJECTED
                  /\ check_user_status(users_db'[u]) = "rejected"
                  /\ response' = ConditionFailed
           /\ \A pos \in {<<si - 1, ti - 1>> : si \in DOMAIN users_db[u].steps, ti \in 1 .. 2} :
                (/\ NoMutation
                 /\ pos[2] < Len(users_db[u].steps[pos[1] + 1].tasks)
                 /\ TaskAt(users_db[u], pos).status # REJECTED
                 /\ TaskAt(users_db'[u], pos).status = REJECTED)
                  => /\ users_db'[u].steps[pos[1] + 1].status = REJECTED
                     /\ users_db'[u].status = REJECTED
                     /\ response' = ConditionFailed
           /\ (response'.code = 200 /\ response'.body \in Status)
                 => response'.body = users_db'[u].status]_vars

C6_Witness ==
    /\ response = ConditionFailed
    /\ \E u \in DOMAIN users_db :
         /\ users_db[u].status = REJECTED
         /\ \E i \in DOMAIN adv :
              /\ ~adv[i].ok
              /\ TaskAt(users_db[u], adv[i].progressed).status = REJECTED

\* C7: after a successful complete_task on a task that has no condition,
\* that task's status is COMPLETED.
C7_UnconditionedTaskCompleted ==
    [][\A u \in UserIds :
         (/\ Stays(u)
          /\ response' = TaskCompleted
          /\ Len(adv') = 1
          /\ TaskAt(users_db[u], adv'[1].progressed).condition = None)
           => TaskAt(users_db'[u], adv'[1].progressed).status = COMPLETED]_vars

\* C8: whenever a request advances the cursor past a task, the payload it
\* validated for that was validated against that task's required_fields:
\* progress() acts on the task whose payload was validated.
C8_ProgressOnValidatedTask ==
    \A i \in DOMAIN adv : adv[i].validated = adv[i].progressed

\* the user's flow is the default flow, whatever its progress
Blank(task) == [task EXCEPT !.status = NOT_COMPLETED]
BlankStep(step) ==
    [step EXCEPT !.status = NOT_COMPLETED, !.current_task_index = 0,
                 !.tasks = [i \in DOMAIN step.tasks |-> Blank(step.tasks[i])]]
IsDefaultFlow(user) ==
    [i \in DOMAIN user.steps |-> BlankStep(user.steps[i])] = default_steps

\* the integer a validated score denotes
ScoreOf(payload) ==
    IF payload["score"][1] = "int" THEN payload["score"][2]
    ELSE IntOfString(payload["score"][2])

\* position of the IQ Test step in the default flow
IqStep == FirstIndexOf(default_steps, "IQ Test") + 1

\* C9: in the default flow, a complete_task on the IQ Test task with a
\* payload that passes validation completes the task and the step and moves
\* the cursor to Interview if and only if the payload's score is greater
\* than 75; otherwise the task, the step and the user become REJECTED.
C9_IqTestPassesIffScoreAbove75 ==
    [][\A u \in UserIds : \A p \in PayloadsFor(default_steps[IqStep].tasks[1]) :
         (/\ Stays(u)
          /\ IsDefaultFlow(users_db[u])
          /\ users_db[u].current_step_index = IqStep - 1
          /\ CurTask(users_db[u]).status # COMPLETED
          /\ validate_task_payload(CurTask(users_db[u]), p).body = NoError
          /\ CompleteTask(u, "IQ Test", "IQ Test", p))
           => IF ScoreOf(p) > IqThreshold
              THEN /\ users_db'[u].steps[IqStep].tasks[1].status = COMPLETED
                   /\ users_db'[u].steps[IqStep].status = COMPLETED
                   /\ CurStep(users_db'[u]).step_name = "Interview"
              ELSE /\ users_db'[u].steps[IqStep].tasks[1].status = REJECTED
                   /\ users_db'[u].steps[IqStep].status = REJECTED
                   /\ users_db'[u].status = REJECTED]_vars

\* number of tasks of a flow
RECURSIVE NumTasks(_)
NumTasks(steps) ==
    IF steps = <<>> THEN 0 ELSE Len(Head(steps).tasks) + NumTasks(Tail(steps))

DefaultTasks == NumTasks(default_steps)

\* C10: a default-flow user whose every request so far was a successful
\* complete_task (so: the tasks in flow order, each with a payload that
\* passes validation and satisfies the condition) is IN_PROGRESS until the
\* last task of the last step has been submitted, and is then ACCEPTED with
\* every step COMPLETED.
C10_AcceptedAfterLastTask ==
    \A u \in DOMAIN users_db :
      (history[u].clean /\ IsDefaultFlow(users_db[u])) =>
        /\ history[u].completions < DefaultTasks => users_db[u].status = IN_PROGRESS
        /\ history[u].completions >= DefaultTasks =>
             /\ users_db[u].status = ACCEPTED
             /\ \A i \in DOMAIN users_db[u].steps : users_db[u].steps[i].status = COMPLETED

C10_Witness ==
    \E u \in DOMAIN users_db :
      /\ history[u].clean
      /\ history[u].completions = DefaultTasks
      /\ IsDefaultFlow(users_db[u])
      /\ users_db[u].status = ACCEPTED
      /\ response = TaskCompleted

\* C11 as stated: the default flow has 6 steps holding 7 tasks, and a user
\* who only completes tasks is ACCEPTED exactly from the 7th completion on.
C11_SevenTasks ==
    \A u \in DOMAIN users_db :
      (history[u].clean /\ IsDefaultFlow(users_db[u])) =>
        /\ Len(users_db[u].steps) = 6
        /\ NumTasks(users_db[u].steps) = 7
        /\ users_db[u].status = ACCEPTED <=> history[u].completions >= 7

\* C11, amended: the default flow has 6 steps holding 8 tasks, and a user
\* who only completes tasks is ACCEPTED exactly from the 8th completion on.
C11_EightTasks ==
    \A u \in DOMAIN users_db :
      (history[u].clean /\ IsDefaultFlow(users_db[u])) =>
        /\ Len(users_db[u].steps) = 6
        /\ NumTasks(users_db[u].steps) = 8
        /\ users_db[u].status = ACCEPTED <=> history[u].completions >= 8

\* seven tasks were completed and the user is still in progress
C11_Witness ==
    \E u \in DOMAIN users_db :
      /\ history[u].clean
      /\ IsDefaultFlow(users_db[u])
      /\ history[u].completions = 7
      /\ users_db[u].status = IN_PROGRESS
      /\ users_db[u].current_step_index = Len(users_db[u].steps) - 1

\* In a user all of whose requests were successful complete_task calls, the
\* tasks completed so far: those before the cursors, and all of them once the
\* user is ACCEPTED (si, ti are 0-based positions).
CompletedBefore(user, si, ti) ==
    \/ user.status = ACCEPTED
    \/ si < user.current_step_index
    \/ /\ si = user.current_step_index
       /\ ti < user.steps[si + 1].current_task_index

AlreadyCompleted == Resp(400, "Task already completed", <<>>)

\* C12: a complete_task call, with any payload, on a task the user has
\* already completed successfully answers 'already completed', runs
\* progress() no more and leaves the user as it was.
C12_CompletedTaskIsNoOp ==
    [][\A u \in UserIds :
         (Stays(u) /\ history[u].clean) =>
           \A si \in DOMAIN users_db[u].steps :
             \A ti \in DOMAIN users_db[u].steps[si].tasks :
               LET step_name == users_db[u].steps[si].step_name
                   task_name == users_db[u].steps[si].tasks[ti].task_name
               IN \A p \in TaskPayloads(users_db[u], step_name, task_name) :
                    (/\ CompletedBefore(users_db[u], si - 1, ti - 1)
                     /\ ~IsEmptyPayload(p)
                     /\ CompleteTask(u, step_name, task_name, p))
                      => /\ response' = AlreadyCompleted
                         /\ adv' = <<>>
                         /\ users_db'[u] = users_db[u]]_vars

\* the request names a step that is not the current step or a task that is
\* not the current task of the current step
NamesNotCurrent(user, step_name, task_name) ==
    \/ ~HasCurrentStep(user)
    \/ CurStep(user).step_name # step_name
    \/ CurTask(user).task_name # task_name

NotCurrentOrNotFound ==
    { Resp(404, "This step do not exist", <<>>),
      Resp(400, "Step is not the current step", <<>>),
      Resp(404, "Task not found.", <<>>),
      Resp(400, "Task is not the current task", <<>>) }

\* C13: a complete_task call (carrying a payload) that names a step other
\* than the current step, or a task other than the current task of the
\* current step, is answered with a not-current / not-found error and
\* changes no status and no cursor.
C13_OutOfOrderRefused ==
    [][\A u \in UserIds :
         Stays(u) =>
           \A step_name \in UrlStepNames(users_db[u]),
              task_name \in UrlTaskNames(users_db[u]) :
             \A p \in TaskPayloads(users_db[u], step_name, task_name) :
               (/\ NamesNotCurrent(users_db[u], step_name, task_name)
                /\ ~IsEmptyPayload(p)
                /\ CompleteTask(u, step_name, task_name, p))
                 => /\ response' \in NotCurrentOrNotFound
                    /\ users_db'[u] = users_db[u]]_vars

\* the required fields the payload does not hold, in their order
MissingFields(task, payload) ==
    SelectSeq(task.required_fields, LAMBDA field : ~Has(payload, field))

\* the payload lacks a required field or holds one that fails its rule
FailsValidation(task, payload) ==
    \/ MissingFields(task, payload) # <<>>
    \/ \E i \in DOMAIN task.required_fields :
         validate_field(task.required_fields[i], payload[task.required_fields[i]]) # NoError

\* the messages of the rules the payload's required fields fail
RuleMessages(task, payload) ==
    {validate_field(task.required_fields[i], payload[task.required_fields[i]]) :
       i \in DOMAIN task.required_fields} \ ({NoError} \cup Raises)

\* C14: a complete_task call on the current task whose (non-empty) payload lacks a
\* required field or holds a required field that fails its rule is answered
\* with a validation error (all the missing fields when some are missing,
\* else the message of a failed rule), calls progress() not at all and
\* leaves every status and cursor unchanged.
C14_InvalidPayloadRefused ==
    [][\A u \in UserIds :
         (Stays(u) /\ HasCurrentStep(users_db[u])) =>
           \A p \in PayloadsFor(CurTask(users_db[u])) :
             (/\ CurTask(users_db[u]).status # COMPLETED
              /\ ~IsEmptyPayload(p)
              /\ FailsValidation(CurTask(users_db[u]), p)
              /\ CompleteTask(u, CurStep(users_db[u]).step_name,
                              CurTask(users_db[u]).task_name, p))
               => /\ response'.code = 400
                  /\ IF MissingFields(CurTask(users_db[u]), p) # <<>>
                     THEN /\ response'.body = "Missing required fields"
                          /\ response'.detail = MissingFields(CurTask(users_db[u]), p)
                     ELSE response'.body \in RuleMessages(CurTask(users_db[u]), p)
                  /\ adv' = <<>>
                  /\ users_db'[u] = users_db[u]]_vars

\* C15: no two registered users have the same email, and users_emails is
\* exactly the set of the emails of the users in users_db.
C15_EmailsMirrorRegistry ==
    /\ \A u, v \in DOMAIN users_db :
         u # v => users_db[u].email # users_db[v].email
    /\ users_emails = {users_db[u].email : u \in DOMAIN users_db}

\* an email was changed while another user was registered
C15_Witness ==
    /\ response = Resp(200, "Email updated successfully", <<>>)
    /\ Cardinality(DOMAIN users_db) >= 2
    /\ Cardinality(users_emails) >= 2

DuplicateEmail == Resp(409, "Email already exists.", <<>>)

\* C16: create_user or update_email with an email that is registered is
\* answered 409 and changes neither users_db nor users_emails.
C16_DuplicateEmailRefused ==
    [][\A email \in RegistryEmails :
         (/\ email[1] = "str"
          /\ email[2] \in users_emails
          /\ \/ create_user(email, DefaultFlow)
             \/ \E u \in UserIds : update_user_email(u, email))
           => /\ response' = DuplicateEmail
              /\ users_db' = users_db
              /\ users_emails' = users_emails]_vars

\* a duplicate was refused while two users were registered
C16_Witness ==
    /\ response = DuplicateEmail
    /\ Cardinality(DOMAIN users_db) = 2
    /\ \E u \in DOMAIN users_db : users_db[u].email = "A@b.com"

\* The request designates a step by its index only or by its name only, and
\* that step is the current step (of several steps of that name, the first
\* is meant, as in User.remove_step and User.modify_step).
TargetsCurrent(user, target) ==
    /\ HasCurrentStep(user)
    /\ \/ target[1] = None /\ target[2] = user.current_step_index
       \/ /\ target[2] = NoIndex /\ target[1] # None
          /\ FirstIndexOf(user.steps, target[1]) = user.current_step_index

CannotRemove == Resp(400, "Cannot remove an in-progress step", <<>>)

\* C17: a remove_step request that designates the current step, by index or
\* by name, is answered 'Cannot remove an in-progress step' and leaves the
\* user as it was.
C17_CurrentStepNotRemoved ==
    [][\A u \in UserIds :
         Stays(u) =>
           \A target \in Targets(users_db[u], CustomRequests)
                           \cup Targets(users_db[u], DefaultRequests) :
             (/\ TargetsCurrent(users_db[u], target)
              /\ RemoveStep(u, target[1], target[2]))
               => /\ response' = CannotRemove
                  /\ users_db'[u] = users_db[u]]_vars

\* C18: a modify_step request that designates the current step, by index or
\* by name, is refused and leaves the user's flow as it was.
C18_CurrentStepNotModified ==
    [][\A u \in UserIds :
         Stays(u) =>
           \A req \in ModifyRequests(users_db[u], CustomRequests)
                        \cup ModifyRequests(users_db[u], DefaultRequests) :
             (/\ TargetsCurrent(users_db[u], req[2])
              /\ ModifyStep(u, req[1], req[2][1], req[2][2], req[3]))
               => /\ response'.code \notin {0, 200}
                  /\ users_db'[u] = users_db[u]]_vars

\* the step is an add_step, remove_step or modify_step request on user u
StructuralRequest(u) ==
    \/ \E req \in AddRequests(CustomRequests) \cup AddRequests(DefaultRequests) :
         AddStep(u, req[1], req[2], req[3])
    \/ \E target \in Targets(users_db[u], CustomRequests)
                       \cup Targets(users_db[u], DefaultRequests) :
         RemoveStep(u, target[1], target[2])
    \/ \E req \in ModifyRequests(users_db[u], CustomRequests)
                    \cup ModifyRequests(users_db[u], DefaultRequests) :
         ModifyStep(u, req[1], req[2][1], req[2][2], req[3])

\* C19: an add_step, remove_step or modify_step request that is answered
\* with an error leaves the user (steps, steps_names, cursors, statuses)
\* exactly as before: no step that answers an error and changes the user
\* is such a request.
C19_FailedMutationChangesNothing ==
    [][\A u \in UserIds :
         (Stays(u) /\ response'.code # 200 /\ users_db'[u] # users_db[u])
           => ~StructuralRequest(u)]_vars

\* a request was refused for its index after the flow had been changed
C19_Witness ==
    /\ response = Resp(400, "Index out of range", <<>>)
    /\ mutations > 0

StepAdded == Resp(200, "Step added", <<>>)
IndexOutOfRange == Resp(400, "Index out of range", <<>>)

\* the step names the add_step requests bring
NewStepNames == CustomRequests.fresh \cup DefaultRequests.fresh

\* what an add_step request with a new name and well-formed tasks is to do:
\* before and after are the user before and after it, answer the response
AddedAt(before, after, answer, step_name, index) ==
    IF index = NoIndex \/ (0 <= index /\ index <= Len(before.steps))
    THEN LET at == IF index = NoIndex THEN Len(before.steps) ELSE index
         IN /\ answer = StepAdded
            /\ Len(after.steps) = Len(before.steps) + 1
            /\ after.steps[at + 1].step_name = step_name
            /\ RemoveAt(after.steps, at) = before.steps
    ELSE /\ answer = IndexOutOfRange
         /\ after = before

StepRemoved == Resp(200, "Step removed successfully", <<>>)

\* the request designates a step by its index only or by its name only
SingleDesignator(target) ==
    \/ target[1] = None /\ target[2] # NoIndex
    \/ target[1] # None /\ target[2] = NoIndex

\* the 0-based position it designates (of several steps of that name, the
\* first, as in User.remove_step and User.modify_step)
TargetIndex(user, target) ==
    IF target[1] = None THEN target[2] ELSE FirstIndexOf(user.steps, target[1])

\* after is before without the step at the 0-based position at
RemovedAt(before, after, at) ==
    /\ 0 <= at /\ at < Len(before.steps)
    /\ Len(after.steps) = Len(before.steps) - 1
    /\ before.steps[at + 1].step_name \notin StepNamesOf(after)
    /\ after.steps = RemoveAt(before.steps, at)

\* C21: a successful remove_step by index or by exact name removes exactly
\* the targeted step: the flow is one step shorter, the name of the removed
\* step is no longer the name of a step of the flow, and the other steps
\* are as they were and in their order.
C21_TargetedStepRemoved ==
    [][\A u \in UserIds :
         (Stays(u) /\ response' = StepRemoved) =>
           \A target \in Targets(users_db[u], CustomRequests)
                           \cup Targets(users_db[u], DefaultRequests) :
             (/\ SingleDesignator(target)
              /\ RemoveStep(u, target[1], target[2]))
               => RemovedAt(users_db[u], users_db'[u],
                            TargetIndex(users_db[u], target))]_vars

StepModified == Resp(200, "Step modified", <<>>)
StepAlreadyExists == Resp(400, "Step already exists", <<>>)

\* after is before with new_step in the place of the step at the 0-based
\* position at, whose name is no longer the name of a step
ReplacedAt(before, after, at, new_step) ==
    /\ 0 <= at /\ at < Len(before.steps)
    /\ after.steps = [before.steps EXCEPT ![at + 1] = new_step]
    /\ new_step.step_name \in StepNamesOf(after)
    /\ before.steps[at + 1].step_name \notin StepNamesOf(after)

\* C22: a successful modify_step by index or by name puts a fully new step
\* (new name, new task list, status NOT_COMPLETED, task cursor 0) in the
\* place of the targeted step: the other steps stay where they were, the
\* new name is a step name of the flow and the old name no longer is; and
\* a new name that a step of the flow already has is refused with
\* 'already exists', the user staying as it was.
C22_TargetedStepReplaced ==
    [][\A u \in UserIds :
         (Stays(u) /\ response'.code \in {200, 400, 500}) =>
           \A req \in ModifyRequests(users_db[u], CustomRequests)
                        \cup ModifyRequests(users_db[u], DefaultRequests) :
             /\ (/\ response' = StepModified
                 /\ SingleDesignator(req[2])
                 /\ ModifyStep(u, req[1], req[2][1], req[2][2], req[3]))
                  => ReplacedAt(users_db[u], users_db'[u],
                                TargetIndex(users_db[u], req[2]),
                                Step(req[1], create_task_list(req[3]).tasks))
             /\ (/\ req[1] \in StepNamesOf(users_db[u])
                 /\ ModifyStep(u, req[1], req[2][1], req[2][2], req[3]))
                  => /\ response' = StepAlreadyExists
                     /\ users_db'[u] = users_db[u]]_vars

StepCompleted == Resp(200, "Step marked as completed", <<>>)

\* the payload passes the task's validation and satisfies its condition
Acceptable(task, payload) ==
    /\ ~IsEmptyPayload(payload)
    /\ ~FailsValidation(task, payload)
    /\ task.condition # None =>
         LET condition_var == Get(payload, "condition_var")
         IN /\ Truthy(condition_var)
            /\ condition_var[1] = "str"
            /\ CallCondition(task.condition, Get(payload, condition_var[2])) = "true"

\* step_payload holds no payload for the tasks before the step's task
\* cursor and an acceptable one for each of the others
OnlyRemaining(step, step_payload) ==
    \A j \in DOMAIN step.tasks :
      LET payload == step_payload[step.tasks[j].task_name]
      IN IF j <= step.current_task_index
         THEN IsEmptyPayload(payload)
         ELSE Acceptable(step.tasks[j], payload)

\* the progress() calls that process the tasks of the step at the 0-based
\* position s from its task cursor on, each once and in order
RemainingProcessed(user, s) ==
    LET k == user.steps[s + 1].current_task_index
    IN [i \in 1 .. Len(user.steps[s + 1].tasks) - k |->
          [validated |-> <<s, k + i - 1>>, progressed |-> <<s, k + i - 1>>,
           ok |-> TRUE]]

\* C23: complete_step skips the tasks already completed: when the first k
\* tasks of the current step were completed through complete_task, a
\* complete_step for that step that carries payloads for the remaining
\* tasks only succeeds and processes exactly those, each once and in order.
C23_CompleteStepSkipsCompleted ==
    [][\A u \in UserIds :
         (/\ Stays(u)
          /\ history[u].clean
          /\ users_db[u].status = IN_PROGRESS
          /\ HasCurrentStep(users_db[u])
          /\ CurStep(users_db[u]).current_task_index > 0) =>
           \A p \in StepPayloads(users_db[u], CurStep(users_db[u]).step_name) :
             (/\ OnlyRemaining(CurStep(users_db[u]), p)
              /\ CompleteStep(u, CurStep(users_db[u]).step_name, p))
               => /\ response' = StepCompleted
                  /\ adv' = RemainingProcessed(users_db[u],
                                               users_db[u].current_step_index)]_vars

\* C24: whenever complete_step answers 'Step marked as completed' for a
\* step, that step (the user's current step when the request came) has
\* status COMPLETED afterwards, wherever its task cursor was.
C24_CompletedStepIsCompleted ==
    [][\A u \in UserIds :
         (Stays(u) /\ response' = StepCompleted) =>
           \A step_name \in UrlStepNames(users_db[u]) :
             \A p \in StepPayloads(users_db[u], step_name) :
               CompleteStep(u, step_name, p)
                 => /\ Len(users_db'[u].steps) = Len(users_db[u].steps)
                    /\ users_db'[u].steps[users_db[u].current_step_index + 1].status
                         = COMPLETED]_vars

\* complete_step succeeded on a step whose task cursor was past its first task
C24_Witness ==
    /\ response = StepCompleted
    /\ adv # <<>>
    /\ adv[1].progressed[2] > 0

\* the positions of the steps called step_name
StepsNamed(user, step_name) ==
    {i \in DOMAIN user.steps : user.steps[i].step_name = step_name}

\* C25: progression is monotonic: over any request a user's
\* current_step_index does not decrease, and neither does the
\* current_task_index of a step that is in the flow before and after it (a
\* step being known by its name; modify_step puts a new step in the place
\* of another).
C25_CursorsNeverDecrease ==
    [][\A u \in UserIds :
         Stays(u) =>
           /\ users_db'[u].current_step_index >= users_db[u].current_step_index
           /\ \A i \in DOMAIN users_db[u].steps, j \in DOMAIN users_db'[u].steps :
                (/\ users_db'[u].steps[j].step_name = users_db[u].steps[i].step_name
                 /\ StepsNamed(users_db[u], users_db[u].steps[i].step_name) = {i}
                 /\ StepsNamed(users_db'[u], users_db[u].steps[i].step_name) = {j})
                  => users_db'[u].steps[j].current_task_index
                       >= users_db[u].steps[i].current_task_index]_vars

\* both cursors have moved in a flow that a structural request changed
C25_Witness ==
    \E u \in DOMAIN users_db :
      /\ mutations > 0
      /\ users_db[u].current_step_index > 0
      /\ \E i \in DOMAIN users_db[u].steps :
           users_db[u].steps[i].current_task_index > 0
      /\ ~IsDefaultFlow(users_db[u])

TaskNamesOf(step) == {step.tasks[i].task_name : i \in DOMAIN step.tasks}

\* C26: in every reachable state every step's tasks_names is the set of the
\* task_name values of its tasks, and every step has at least one task.
C26_TaskNamesMirrorTasks ==
    \A u \in DOMAIN users_db :
      \A i \in DOMAIN users_db[u].steps :
        /\ users_db[u].steps[i].tasks_names = TaskNamesOf(users_db[u].steps[i])
        /\ Len(users_db[u].steps[i].tasks) >= 1

\* a flow holds a step built with no tasks, which has the single task named
\* after it, next to a step a structural request built with two tasks
C26_Witness ==
    \E u \in DOMAIN users_db :
      /\ mutations > 0
      /\ \E i, j \in DOMAIN users_db[u].steps :
           /\ users_db[u].steps[i].tasks_names = {users_db[u].steps[i].step_name}
           /\ Len(users_db[u].steps[i].tasks) = 1
           /\ users_db[u].steps[j].step_name \in NewStepNames
           /\ Len(users_db[u].steps[j].tasks) = 2

\* C27: in every reachable state no step holds two tasks with the same
\* name, the steps create_user builds from a custom definition included.
C27_TaskNamesUnique ==
    \A u \in DOMAIN users_db :
      \A s \in DOMAIN users_db[u].steps :
        \A i, j \in DOMAIN users_db[u].steps[s].tasks :
          i # j => users_db[u].steps[s].tasks[i].task_name
                     # users_db[u].steps[s].tasks[j].task_name

\* C28: in every reachable state, the current step of a user, while its
\* status is neither COMPLETED nor REJECTED, has
\* 0 <= current_task_index < len(tasks).
C28_TaskCursorInRange ==
    \A u \in DOMAIN users_db :
      (/\ HasCurrentStep(users_db[u])
       /\ CurStep(users_db[u]).status \notin {COMPLETED, REJECTED})
        => /\ 0 <= CurStep(users_db[u]).current_task_index
           /\ CurStep(users_db[u]).current_task_index
                < Len(CurStep(users_db[u]).tasks)

\* the task cursor of a current step stands on the last of its several tasks
C28_Witness ==
    \E u \in DOMAIN users_db :
      /\ HasCurrentStep(users_db[u])
      /\ CurStep(users_db[u]).status = NOT_COMPLETED
      /\ CurStep(users_db[u]).current_task_index > 0
      /\ CurStep(users_db[u]).current_task_index = Len(CurStep(users_db[u]).tasks) - 1
      /\ response = TaskCompleted

\* C29: in every reachable state a task with no condition does not have
\* the status REJECTED.
C29_UnconditionedNeverRejected ==
    \A u \in DOMAIN users_db :
      \A s \in DOMAIN users_db[u].steps :
        \A t \in DOMAIN users_db[u].steps[s].tasks :
          users_db[u].steps[s].tasks[t].condition = None
            => users_db[u].steps[s].tasks[t].status # REJECTED

\* a request was answered 'Condition failed' after the payload of a task
\* with no condition was validated: the task rejected is the conditioned
\* task the cursor stood on
C29_Witness ==
    /\ response = ConditionFailed
    /\ adv # <<>>
    /\ \E u \in DOMAIN users_db :
         LET a == adv[Len(adv)]
         IN /\ a.validated[1] + 1 \in DOMAIN users_db[u].steps
            /\ a.validated[2] + 1 \in DOMAIN users_db[u].steps[a.validated[1] + 1].tasks
            /\ TaskAt(users_db[u], a.validated).condition = None
            /\ a.progressed[1] + 1 \in DOMAIN users_db[u].steps
            /\ a.progressed[2] + 1 \in DOMAIN users_db[u].steps[a.progressed[1] + 1].tasks
            /\ TaskAt(users_db[u], a.progressed).status = REJECTED
            /\ users_db[u].status = REJECTED

UserDeleted == Resp(200, "User deleted", <<>>)

\* the emails of the registered users
EmailsOf(db) == {db[u].email : u \in DOMAIN db}

\* C30: a successful delete_user takes the user out of the registry and
\* its email out of the email set, every other user staying as it was; a
\* request on an identifier that is not registered (delete_user included)
\* is answered NotFound and changes nothing, the identifier staying
\* unregistered until create_user draws it; and an email that no
\* registered user holds, that of a deleted user included, can be
\* registered.
C30_DeletedUserIsGone ==
    [][/\ \A u \in UserIds :
            /\ (u \in DOMAIN users_db /\ u \notin DOMAIN users_db')
                 => /\ response' = UserDeleted
                    /\ users_db' = Without(users_db, u)
                    /\ users_emails' = users_emails \ {users_db[u].email}
                    /\ users_db[u].email \notin users_emails'
            /\ (u \notin DOMAIN users_db /\ u \in DOMAIN users_db')
                 => response' = Resp(201, "user_id", <<u>>)
            /\ (u \notin DOMAIN users_db /\ OnUnknownUser(u))
                 => /\ response' = NotFound
                    /\ UNCHANGED <<users_db, users_emails>>
       /\ response' = UserDeleted
            => \E u \in DOMAIN users_db : u \notin DOMAIN users_db'
       /\ \A email \in RegistryEmails :
            (/\ Truthy(email)
             /\ validate_field("email", email) = NoError
             /\ email[2] \notin EmailsOf(users_db)
             /\ create_user(email, DefaultFlow))
              => /\ response'.code = 201
                 /\ email[2] \in EmailsOf(users_db')]_vars

\* a user was deleted, another is still registered, and the email of the
\* deleted user is free again
C30_Witness ==
    /\ response = UserDeleted
    /\ users_db # <<>>
    /\ Cardinality(users_emails) = Cardinality(DOMAIN users_db)
    /\ \E email \in RegistryEmails :
         /\ Truthy(email)
         /\ validate_field("email", email) = NoError
         /\ email[2] \notin users_emails

\* The answer a task's own payload earns in complete_step: the error of
\* the task (missing payload, validation error, condition not given or not
\* called, condition failure), or NoError when the task passes.
OwnError(task, payload) ==
    LET validation_error == validate_task_payload(task, payload)
        condition_var == Get(payload, "condition_var")
        condition_value == IF Truthy(condition_var) /\ condition_var[1] = "str"
                           THEN Get(payload, condition_var[2])
                           ELSE PyNone
    IN IF IsEmptyPayload(payload)
       THEN Resp(400, "Missing payload for task", <<task.task_name>>)
       ELSE IF validation_error.body = Raise THEN InternalError("TypeError")
       ELSE IF validation_error.body = RaiseAttributeError
       THEN InternalError("AttributeError")
       ELSE IF validation_error.body # NoError THEN validation_error
       ELSE IF task.condition = None THEN Resp(0, NoError, <<>>)
       ELSE IF ~Truthy(condition_var)
       THEN Resp(400, "Task has condition but 'condition_var' wasn't provided", <<>>)
       ELSE IF CallCondition(task.condition, condition_value) = "raise"
       THEN InternalError("TypeError")
       ELSE IF CallCondition(task.condition, condition_value) = "true"
       THEN Resp(0, NoError, <<>>)
       ELSE ConditionFailed

\* the payload step_payload holds for the task ({} when it holds none)
PayloadOf(step_payload, task) ==
    IF task.task_name \in DOMAIN step_payload THEN step_payload[task.task_name]
    ELSE <<>>

\* the tasks of the step (1-based) that complete_step visits and that fail
\* on their own payload
FailingTasks(step, step_payload) ==
    {j \in DOMAIN step.tasks :
       /\ step.tasks[j].status # COMPLETED
       /\ OwnError(step.tasks[j], PayloadOf(step_payload, step.tasks[j])).body # NoError}

\* C31: a complete_step on the current step that is not answered with
\* success stopped at the first task that fails: the answer is that task's
\* error, no later task of the step was processed, and the advances made
\* for the earlier tasks are kept.
C31_CompleteStepStopsAtFirstFailure ==
    [][\A u \in UserIds :
         (/\ Stays(u)
          /\ response'.code \in {400, 500}
          /\ HasCurrentStep(users_db[u])
          /\ CurStep(users_db[u]).status # COMPLETED) =>
           \A p \in StepPayloads(users_db[u], CurStep(users_db[u]).step_name) :
             CompleteStep(u, CurStep(users_db[u]).step_name, p) =>
               LET step == CurStep(users_db[u])
                   s == users_db[u].current_step_index
                   failing == FailingTasks(step, p)
               IN /\ failing # {}
                  /\ LET first == CHOOSE j \in failing : \A k \in failing : j <= k
                     IN /\ response' = OwnError(step.tasks[first],
                                                PayloadOf(p, step.tasks[first]))
                        /\ \A i \in DOMAIN adv' :
                             /\ adv'[i].validated[2] + 1 <= first
                             /\ adv'[i].validated[2] + 1 < first => adv'[i].ok
                        /\ users_db'[u].steps[s + 1].current_task_index
                             >= step.current_task_index]_vars

\* C32: after a successful add_step or remove_step the step that
\* current_step_index designates is the step it designated before: same
\* name, same status, same task cursor.
C32_PositionKept ==
    [][\A u \in UserIds :
         (/\ Stays(u)
          /\ response' \in {StepAdded, StepRemoved}
          /\ users_db'[u] # users_db[u]
          /\ HasCurrentStep(users_db[u]))
           => /\ HasCurrentStep(users_db'[u])
              /\ CurStep(users_db'[u]).step_name = CurStep(users_db[u]).step_name
              /\ CurStep(users_db'[u]).status = CurStep(users_db[u]).status
              /\ CurStep(users_db'[u]).current_task_index
                   = CurStep(users_db[u]).current_task_index]_vars

\* C33: in every reachable state in which a user's status is ACCEPTED,
\* every step of that user's flow has status COMPLETED, whatever add_step,
\* remove_step and modify_step requests were made.
C33_AcceptedMeansAllCompleted ==
    \A u \in DOMAIN users_db :
      users_db[u].status = ACCEPTED =>
        \A i \in DOMAIN users_db[u].steps : users_db[u].steps[i].status = COMPLETED

\* C34: a modify_step whose new_step_name is the target step's own name,
\* which no other step has, is not refused as a duplicate: it succeeds and
\* puts the new task list in the place of the step's.
C34_OwnNameAccepted ==
    [][\A u \in UserIds :
         Stays(u) =>
           \A req \in ModifyRequests(users_db[u], CustomRequests)
                        \cup ModifyRequests(users_db[u], DefaultRequests) :
             LET at == TargetIndex(users_db[u], req[2])
             IN (/\ SingleDesignator(req[2])
                 /\ 0 <= at /\ at < Len(users_db[u].steps)
                 /\ users_db[u].steps[at + 1].step_name = req[1]
                 /\ StepsNamed(users_db[u], req[1]) = {at + 1}
                 /\ create_task_list(req[3]).error = NoError
                 /\ check_duplicate_task_names(req[3]) = NoError
                 /\ check_empty_task_names(req[3]) = NoError
                 /\ ModifyStep(u, req[1], req[2][1], req[2][2], req[3]))
                  => /\ response' = StepModified
                     /\ users_db'[u].steps
                          = [users_db[u].steps EXCEPT ![at + 1] =
                               Step(req[1], create_task_list(req[3]).tasks)]]_vars

====
